---- MODULE Spec2Model ----
(***************************************************************************)
(* Profast server: parcel lifecycle, tracking ledger, cancellation policy  *)
(* and payment confirmation, modelled from src/index.js (first snapshot,   *)
(* lines 1-1820).  Every request handler is one action; a handler's store  *)
(* calls happen in source order and the parameter f names the store call   *)
(* that throws (0: none), which sends the handler into its catch block.    *)
(***************************************************************************)
EXTENDS Integers, Sequences, FiniteSets, TLC

\* ---------------------------------------------------------------- bounds
MaxParcels == 1      \* parcels ever inserted
MaxDocs == 5         \* documents in the tracking, payment, notification and log collections
MaxPayments == 2     \* payment records ever inserted under SpecPay
MaxLogs == 1         \* audit log entries under SpecPay
MaxAdminDocs == 8    \* documents in the same collections under SpecAdmin
MaxCodeParcels == 2  \* parcels ever inserted under SpecCodes
MaxUserDocs == 3     \* documents in the notification and log collections under SpecUsers
MaxRequests == 2     \* payment confirmations in flight at once under SpecRace
TicksPerHour == 2    \* clock resolution: ticks per hour

\* ------------------------------------------------------- program constants
Limit24 == 24
Limit8 == 8

Undefined == "undefined"     \* a field that is absent / JS undefined
Null == "null"               \* JS null
NoId == 0                    \* an absent (falsy) document id
NoDate == 0 - 2              \* a date field that is absent
NullDate == 0 - 1            \* a date field holding null
CentralHub == "Central Hub"

VARIABLES
    parcels,        \* parcelCollection: _id -> document
    nextId,         \* next ObjectId the parcel store hands out
    tracking,       \* trackingCollection, in insertion order
    payments,       \* paymentCollection: _id -> document
    nextPayId,      \* next ObjectId the payment store hands out
    notifications,  \* notificationCollection, in insertion order
    logs,           \* logCollection (admin_logs), in insertion order
    users,          \* userCollection: email -> document
    now,            \* the wall clock, in ticks
    resp,           \* the response of the last request
    requests,       \* payment confirmations in flight: what each holds between its awaits
    inflight        \* the merchant's and the admin's parcel request in flight, likewise

vars == <<parcels, nextId, tracking, payments, nextPayId, notifications, logs, users, now, resp,
          requests, inflight>>

stores == <<parcels, nextId, tracking, payments, nextPayId, notifications, logs, users>>

\* ------------------------------------------------------------- identities
AdminEmail == "admin@profast"
MerchantEmail == "merchant@profast"
RestrictedEmail == "restricted@profast"
NoToken == "no-token"        \* no Authorization header
BadToken == "bad-token"      \* jwt.verify reports an error (invalid, expired)
Tokens == {NoToken, BadToken, AdminEmail, MerchantEmail, RestrictedEmail}

Pass == 0

\* verifyJWT: 401 without a header, 403 on a verification error or a
\* restricted account, otherwise next().  A valid token decodes to its email.
verifyJWTIgnoringRestriction(tok) ==
    IF tok = NoToken THEN 401
    ELSE IF tok = BadToken THEN 403
    ELSE Pass

verifyJWT(tok) ==
    IF tok = NoToken THEN 401
    ELSE IF tok = BadToken THEN 403
    ELSE IF tok \in DOMAIN users /\ users[tok].isRestricted THEN 403
    ELSE Pass

\* verifyAdmin: 403 unless the caller's user document has role "admin".
verifyAdmin(email) ==
    IF email \in DOMAIN users /\ users[email].role = "admin" THEN Pass ELSE 403

\* ------------------------------------------------------------ store helpers
\* res.status(code).send(...): the operation answered, the status code, the
\* message (or "success"), the instant it is sent at, and for a request
\* addressed by tracking code (:trackingId) that code
Response(op, code, msg) == [op |-> op, code |-> code, msg |-> msg, at |-> now, key |-> Undefined]

PaymentResponse(trackingId, code, msg) ==
    [op |-> "payment", code |-> code, msg |-> msg, at |-> now, key |-> trackingId]

\* collection.insertOne on an _id-keyed collection
InsertDoc(coll, id, doc) == coll @@ (id :> doc)

\* collection.deleteOne({_id})
DeleteDoc(coll, id) == [i \in DOMAIN coll \ {id} |-> coll[i]]

\* collection.updateOne({_id}, {$set: fields}); fields is a function from
\* field names to values.  A filter that matches nothing updates nothing.
SetFieldsFirstStatusWins(coll, id, fields) ==
    IF id \notin DOMAIN coll THEN coll
    ELSE IF "status" \in DOMAIN fields /\ coll[id].status # "Pending" THEN coll
    ELSE [coll EXCEPT ![id] =
            [k \in DOMAIN coll[id] \cup DOMAIN fields |->
                IF k \in DOMAIN fields THEN fields[k] ELSE coll[id][k]]]

SetFields(coll, id, fields) ==
    IF id \notin DOMAIN coll THEN coll
    ELSE [coll EXCEPT ![id] =
            [k \in DOMAIN coll[id] \cup DOMAIN fields |->
                IF k \in DOMAIN fields THEN fields[k] ELSE coll[id][k]]]

\* parcelCollection.findOne({_id: new ObjectId(id)}) finds a document
Found(id) == id \in DOMAIN parcels

Min(S) == CHOOSE x \in S : \A y \in S : x <= y

\* parcelCollection.findOne({trackingId}) / updateOne({trackingId}, ...):
\* the first document in natural order whose trackingId equals the parameter.
IdByTracking(trackingId) ==
    LET hits == {i \in DOMAIN parcels : parcels[i].trackingId = trackingId}
    IN IF hits = {} THEN NoId ELSE Min(hits)

\* trackingCollection.insertOne(doc)
TrackingInsertUpsert(ledger, doc) ==
    IF \E i \in 1..Len(ledger) : ledger[i].parcel_id = doc.parcel_id
    THEN LET i == CHOOSE j \in 1..Len(ledger) : ledger[j].parcel_id = doc.parcel_id
         IN [ledger EXCEPT ![i] = doc]
    ELSE Append(ledger, doc)

TrackingInsert(ledger, doc) == Append(ledger, doc)

Notification(title, toUser, fromAdmin) ==
    [title |-> title, toUser |-> toUser, fromAdmin |-> fromAdmin]

AuditLog(adminEmail, actionType, targetEmail) ==
    [adminEmail |-> adminEmail, actionType |-> actionType, targetEmail |-> targetEmail]

\* parcel.createdBy?.email || parcel.userEmail (userEmail is never supplied here)
ToUser(parcel) == parcel.createdBy

\* a parcel document without a paymentInfo field
NoPaymentInfo ==
    [paymentIntentId |-> Undefined, amount |-> 0, paidAt |-> NoDate, payerEmail |-> Undefined]

\* ------------------------------------------------------------ POST /parcels
\* store calls: 1 parcelCollection.insertOne, 2 trackingCollection.insertOne,
\* 3 notificationCollection.insertOne
\* the document POST /parcels stores: the request body with createdAt, status
\* and paymentStatus overwritten
NewParcelTrusting(body, at) ==
    [trackingId |-> body.trackingId,
     tracking_Id |-> body.tracking_Id,
     createdBy |-> body.email,
     senderRegion |-> body.senderRegion,
     receiverRegion |-> body.receiverRegion,
     senderWarehouse |-> body.senderWarehouse,
     receiverWarehouse |-> body.receiverWarehouse,
     createdAt |-> body.createdAt,
     status |-> body.status,
     paymentStatus |-> body.paymentStatus,
     deliveredAt |-> NoDate,
     paymentInfo |-> NoPaymentInfo]

NewParcel(body, at) ==
    [trackingId |-> body.trackingId,
     tracking_Id |-> body.tracking_Id,
     createdBy |-> body.email,
     senderRegion |-> body.senderRegion,
     receiverRegion |-> body.receiverRegion,
     senderWarehouse |-> body.senderWarehouse,
     receiverWarehouse |-> body.receiverWarehouse,
     createdAt |-> at,
     status |-> "Pending",
     paymentStatus |-> "Not Paid",
     deliveredAt |-> NoDate,
     paymentInfo |-> NoPaymentInfo]

\* the initial tracking log of a parcel
InitialLog(body, insertedId, at) ==
    [tracking_Id |-> IF body.trackingId # Undefined THEN body.trackingId
                     ELSE body.tracking_Id,
     parcel_id |-> insertedId,
     status |-> "Pending",
     message |-> <<"Parcel created and awaiting pickup">>,
     time |-> at,
     updated_by |-> "System"]

CreateParcel(tok, body, f) ==
    LET gate == verifyJWT(tok)
        newParcel == NewParcel(body, now)
        log == InitialLog(body, nextId, now)
    IN IF gate # Pass
       THEN /\ resp' = Response("create", gate, "rejected")
            /\ UNCHANGED <<stores, now>>
       ELSE /\ parcels' = IF f = 1 THEN parcels ELSE InsertDoc(parcels, nextId, newParcel)
            /\ nextId' = IF f = 1 THEN nextId ELSE nextId + 1
            /\ tracking' = IF f \in {1, 2} THEN tracking ELSE TrackingInsert(tracking, log)
            /\ notifications' = IF f # 0 THEN notifications
                                ELSE Append(notifications,
                                            Notification("Parcel Created", ToUser(newParcel), FALSE))
            /\ resp' = IF f = 0 THEN Response("create", 201, "created")
                       ELSE Response("create", 500, "Failed to create parcel")
            /\ UNCHANGED <<payments, nextPayId, logs, users, now>>

\* ------------------------------------------------- PATCH /parcels/:id/cancel
\* hoursDiff = (now - createdAt) / (1000 * 60 * 60), compared with a limit in
\* hours: hoursDiff > h.  The clock counts ticks of 1/TicksPerHour hour.
HoursDiffExceedsInclusive(createdAt, at, h) == (at - createdAt) >= h * TicksPerHour

HoursDiffExceeds(createdAt, at, h) == (at - createdAt) > h * TicksPerHour

SameHubMsg == "Parcel cannot be cancelled (same regional central hub)."
Within24Msg == "Parcel can only be cancelled within 24 hours."
Within8Msg == "Parcel can only be cancelled within 8 hours for same region but different hub."
Allowed == "allowed"

\* The business rules of the cancel handler, in source order.
CancelRulesTimeFirst(parcel, at) ==
    IF HoursDiffExceeds(parcel.createdAt, at, Limit24) THEN Within24Msg
    ELSE IF /\ parcel.senderRegion = parcel.receiverRegion
            /\ parcel.senderWarehouse = CentralHub
            /\ parcel.receiverWarehouse = CentralHub
         THEN SameHubMsg
    ELSE IF /\ parcel.senderRegion = parcel.receiverRegion
            /\ parcel.senderWarehouse # parcel.receiverWarehouse
            /\ HoursDiffExceeds(parcel.createdAt, at, Limit8)
         THEN Within8Msg
    ELSE Allowed

CancelRulesNoCrossHub(parcel, at) ==
    IF /\ parcel.senderRegion = parcel.receiverRegion
       /\ parcel.senderWarehouse = CentralHub
       /\ parcel.receiverWarehouse = CentralHub
    THEN SameHubMsg
    ELSE IF HoursDiffExceeds(parcel.createdAt, at, Limit24) THEN Within24Msg
    ELSE Allowed

CancelRules(parcel, at) ==
    IF /\ parcel.senderRegion = parcel.receiverRegion
       /\ parcel.senderWarehouse = CentralHub
       /\ parcel.receiverWarehouse = CentralHub
    THEN SameHubMsg
    ELSE IF HoursDiffExceeds(parcel.createdAt, at, Limit24) THEN Within24Msg
    ELSE IF /\ parcel.senderRegion = parcel.receiverRegion
            /\ parcel.senderWarehouse # parcel.receiverWarehouse
            /\ HoursDiffExceeds(parcel.createdAt, at, Limit8)
         THEN Within8Msg
    ELSE Allowed

\* dayjs is called at line 757 and is neither required nor defined anywhere:
\* evaluating the notification's message throws a ReferenceError.
DayjsDefined == FALSE

\* return res.status(400).send({ message: reason }), before any write
DenyCancelNotifying(reason) ==
    /\ resp' = Response("cancel", 400, reason)
    /\ notifications' = Append(notifications, Notification("Parcel Cancelled", MerchantEmail, FALSE))
    /\ UNCHANGED <<parcels, nextId, tracking, payments, nextPayId, logs, users, now>>

DenyCancel(reason) ==
    /\ resp' = Response("cancel", 400, reason)
    /\ UNCHANGED <<stores, now>>

\* store calls: 1 parcelCollection.findOne, 2 parcelCollection.updateOne,
\* 3 notificationCollection.insertOne
CancelParcel(tok, id, f) ==
    LET gate == verifyJWT(tok)
        parcel == parcels[id]
    IN IF gate # Pass
       THEN /\ resp' = Response("cancel", gate, "rejected")
            /\ UNCHANGED <<stores, now>>
       ELSE IF f = 1
       THEN /\ resp' = Response("cancel", 500, "Failed to cancel parcel")
            /\ UNCHANGED <<stores, now>>
       ELSE IF ~Found(id)
       THEN /\ resp' = Response("cancel", 404, "Parcel not found")
            /\ UNCHANGED <<stores, now>>
       ELSE IF CancelRules(parcel, now) # Allowed
       THEN DenyCancel(CancelRules(parcel, now))
       ELSE /\ parcels' = IF f = 2 THEN parcels
                          ELSE SetFields(parcels, id, [status |-> "Cancelled"])
            /\ notifications' = IF f # 0 \/ ~DayjsDefined THEN notifications
                                ELSE Append(notifications,
                                            Notification("Parcel Cancelled", ToUser(parcel), FALSE))
            /\ resp' = IF f # 0 \/ ~DayjsDefined
                       THEN Response("cancel", 500, "Failed to cancel parcel")
                       ELSE Response("cancel", 200, "success")
            /\ UNCHANGED <<nextId, tracking, payments, nextPayId, logs, users, now>>

\* ------------------------------------------------------ DELETE /parcels/:id
TerminalDeliveredOnly(status) == status = "Delivered"

Terminal(status) == status = "Delivered" \/ status = "Cancelled"

\* store calls: 1 parcelCollection.findOne, 2 parcelCollection.deleteOne,
\* 3 notificationCollection.insertOne
DeleteParcelNoLookup(tok, id, f) ==
    IF verifyJWT(tok) # Pass
    THEN /\ resp' = Response("delete", verifyJWT(tok), "rejected")
         /\ UNCHANGED <<stores, now>>
    ELSE IF Found(id) /\ ~Terminal(parcels[id].status)
    THEN /\ resp' = Response("delete", 400, "Only delivered or cancelled parcels can be deleted.")
         /\ UNCHANGED <<stores, now>>
    ELSE /\ parcels' = DeleteDoc(parcels, id)
         /\ notifications' = Append(notifications,
                Notification("Parcel Deleted",
                             IF Found(id) THEN ToUser(parcels[id]) ELSE Undefined, FALSE))
         /\ resp' = Response("delete", 200, "success")
         /\ UNCHANGED <<nextId, tracking, payments, nextPayId, logs, users, now>>

DeleteParcel(tok, id, f) ==
    LET gate == verifyJWT(tok)
        parcel == parcels[id]
    IN IF gate # Pass
       THEN /\ resp' = Response("delete", gate, "rejected")
            /\ UNCHANGED <<stores, now>>
       ELSE IF f = 1
       THEN /\ resp' = Response("delete", 500, "Failed to delete parcel")
            /\ UNCHANGED <<stores, now>>
       ELSE IF ~Found(id)
       THEN /\ resp' = Response("delete", 404, "Parcel not found")
            /\ UNCHANGED <<stores, now>>
       ELSE IF ~Terminal(parcel.status)
       THEN /\ resp' = Response("delete", 400, "Only delivered or cancelled parcels can be deleted.")
            /\ UNCHANGED <<stores, now>>
       ELSE /\ parcels' = IF f = 2 THEN parcels ELSE DeleteDoc(parcels, id)
            /\ notifications' = IF f # 0 THEN notifications
                                ELSE Append(notifications,
                                            Notification("Parcel Deleted", ToUser(parcel), FALSE))
            /\ resp' = IF f # 0 THEN Response("delete", 500, "Failed to delete parcel")
                       ELSE Response("delete", 200, "success")
            /\ UNCHANGED <<nextId, tracking, payments, nextPayId, logs, users, now>>

\* ------------------------------------------- PATCH /admin/parcels/:id/status
\* store calls: 1 parcelCollection.findOne, 2 parcelCollection.updateOne,
\* 3 trackingCollection.insertOne, 4 notificationCollection.insertOne,
\* 5 logCollection.insertOne
\* The driver stores an undefined value as null.
Bson(v) == IF v = Undefined THEN Null ELSE v

\* deliveredAt: newStatus === "Delivered" ? new Date() : null
DeliveredAtStamped(newStatus, at) == at

DeliveredAt(newStatus, at) == IF newStatus = "Delivered" THEN at ELSE NullDate

\* the tracking log of an admin status update
StatusLogOfOldStatus(parcel, id, newStatus, updatedBy, at) ==
    [tracking_Id |-> parcel.trackingId,
     parcel_id |-> id,
     status |-> parcel.status,
     message |-> <<"Status updated to", parcel.status>>,
     time |-> at,
     updated_by |-> IF updatedBy # Undefined THEN updatedBy ELSE "System"]

StatusLog(parcel, id, newStatus, updatedBy, at) ==
    [tracking_Id |-> parcel.trackingId,
     parcel_id |-> id,
     status |-> Bson(newStatus),
     message |-> <<"Status updated to", newStatus>>,
     time |-> at,
     updated_by |-> IF updatedBy # Undefined THEN updatedBy ELSE "System"]

AdminUpdateStatus(tok, id, newStatus, updatedBy, f) ==
    LET gate == verifyJWT(tok)
        parcel == parcels[id]
        log == StatusLog(parcel, id, newStatus, updatedBy, now)
    IN IF gate # Pass
       THEN /\ resp' = Response("adminStatus", gate, "rejected")
            /\ UNCHANGED <<stores, now>>
       ELSE IF verifyAdmin(tok) # Pass
       THEN /\ resp' = Response("adminStatus", 403, "Forbidden")
            /\ UNCHANGED <<stores, now>>
       ELSE IF f = 1
       THEN /\ resp' = Response("adminStatus", 500, "Failed to update status")
            /\ UNCHANGED <<stores, now>>
       ELSE IF ~Found(id)
       THEN /\ resp' = Response("adminStatus", 404, "Parcel not found")
            /\ UNCHANGED <<stores, now>>
       ELSE /\ parcels' = IF f = 2 THEN parcels
                          ELSE SetFields(parcels, id,
                                 [status |-> Bson(newStatus),
                                  deliveredAt |-> DeliveredAt(newStatus, now)])
            /\ tracking' = IF f \in {2, 3} THEN tracking ELSE TrackingInsert(tracking, log)
            /\ notifications' = IF f \in {2, 3, 4} THEN notifications
                                ELSE Append(notifications,
                                            Notification("Parcel Status Update", ToUser(parcel), TRUE))
            /\ logs' = IF f # 0 THEN logs
                       ELSE Append(logs, AuditLog(tok, "Updated Parcel Status", ToUser(parcel)))
            /\ resp' = IF f # 0 THEN Response("adminStatus", 500, "Failed to update status")
                       ELSE Response("adminStatus", 200, "success")
            /\ UNCHANGED <<nextId, payments, nextPayId, users, now>>

\* ------------------------------------------------ DELETE /admin/parcels/:id
\* store calls: 1 parcelCollection.findOne, 2 parcelCollection.deleteOne,
\* 3 notificationCollection.insertOne, 4 logCollection.insertOne
AdminDeleteParcel(tok, id, f) ==
    LET gate == verifyJWT(tok)
        parcel == parcels[id]
    IN IF gate # Pass
       THEN /\ resp' = Response("adminDelete", gate, "rejected")
            /\ UNCHANGED <<stores, now>>
       ELSE IF verifyAdmin(tok) # Pass
       THEN /\ resp' = Response("adminDelete", 403, "Forbidden")
            /\ UNCHANGED <<stores, now>>
       ELSE IF f = 1
       THEN /\ resp' = Response("adminDelete", 500, "Failed to delete parcel")
            /\ UNCHANGED <<stores, now>>
       ELSE IF ~Found(id)
       THEN /\ resp' = Response("adminDelete", 404, "Parcel not found")
            /\ UNCHANGED <<stores, now>>
       ELSE IF ~Terminal(parcel.status)
       THEN /\ resp' = Response("adminDelete", 400, "Only delivered or cancelled parcels can be deleted.")
            /\ UNCHANGED <<stores, now>>
       ELSE /\ parcels' = IF f = 2 THEN parcels ELSE DeleteDoc(parcels, id)
            /\ notifications' = IF f \in {2, 3} THEN notifications
                                ELSE Append(notifications,
                                            Notification("Parcel Deleted", ToUser(parcel), TRUE))
            /\ logs' = IF f # 0 THEN logs
                       ELSE Append(logs, AuditLog(tok, "Deleted Parcel", ToUser(parcel)))
            /\ resp' = IF f # 0 THEN Response("adminDelete", 500, "Failed to delete parcel")
                       ELSE Response("adminDelete", 200, "success")
            /\ UNCHANGED <<nextId, tracking, payments, nextPayId, users, now>>

\* --------------------------------------------- PATCH /admin/parcels/:id/edit
\* store calls: 1 parcelCollection.findOne, 2 parcelCollection.updateOne,
\* 3 logCollection.insertOne.  updatedFields is the request body, $set as it is.
AdminEditParcel(tok, id, updatedFields, f) ==
    LET gate == verifyJWT(tok)
        parcel == parcels[id]
    IN IF gate # Pass
       THEN /\ resp' = Response("adminEdit", gate, "rejected")
            /\ UNCHANGED <<stores, now>>
       ELSE IF verifyAdmin(tok) # Pass
       THEN /\ resp' = Response("adminEdit", 403, "Forbidden")
            /\ UNCHANGED <<stores, now>>
       ELSE IF f = 1
       THEN /\ resp' = Response("adminEdit", 500, "Failed to edit parcel")
            /\ UNCHANGED <<stores, now>>
       ELSE IF ~Found(id)
       THEN /\ resp' = Response("adminEdit", 404, "Parcel not found")
            /\ UNCHANGED <<stores, now>>
       ELSE /\ parcels' = IF f = 2 THEN parcels ELSE SetFields(parcels, id, updatedFields)
            /\ logs' = IF f # 0 THEN logs
                       ELSE Append(logs, AuditLog(tok, "Edited Parcel", ToUser(parcel)))
            /\ resp' = IF f # 0 THEN Response("adminEdit", 500, "Failed to edit parcel")
                       ELSE Response("adminEdit", 200, "success")
            /\ UNCHANGED <<nextId, tracking, payments, nextPayId, notifications, users, now>>

\* ----------------------------------------------------------- POST /tracking
\* No identity gate and no try/catch.  store calls: 1 trackingCollection.insertOne,
\* 2 parcelCollection.updateOne (only when the body carries a parcel_id).  A
\* store call that throws rejects the handler's promise.  The router of
\* Express 4 drops the rejection and no response is sent; the router of
\* Express 5 passes it to the default error handler, which answers 500.  The
\* source does not fix the version.
NoResponse == 0

PostTracking(body, f) ==
    LET log == [tracking_Id |-> body.tracking_Id,
                parcel_id |-> body.parcel_id,
                status |-> Bson(body.status),
                message |-> body.message,
                time |-> now,
                updated_by |-> body.updated_by]
    IN /\ tracking' = IF f = 1 THEN tracking ELSE TrackingInsert(tracking, log)
       /\ parcels' = IF f # 0 \/ body.parcel_id = NoId THEN parcels
                     ELSE SetFields(parcels, body.parcel_id, [status |-> Bson(body.status)])
       /\ IF f = 1 \/ (f = 2 /\ body.parcel_id # NoId)
          THEN resp' \in {Response("tracking", NoResponse, "unhandled rejection"),
                          Response("tracking", 500, "Internal Server Error")}
          ELSE resp' = Response("tracking", 200, "success")
       /\ UNCHANGED <<nextId, payments, nextPayId, notifications, logs, users, now>>

\* ---------------------------------------------------- GET /tracking/:parcelId
\* trackingCollection.find({parcel_id}).sort({time: 1}).toArray()
RECURSIVE SortByTime(_)
SortByTime(evs) ==
    IF Len(evs) <= 1 THEN evs
    ELSE LET i == CHOOSE j \in 1..Len(evs) :
                    /\ \A k \in 1..Len(evs) : evs[j].time <= evs[k].time
                    /\ \A k \in 1..(j - 1) : evs[k].time > evs[j].time
             rest == [k \in 1..(Len(evs) - 1) |-> IF k < i THEN evs[k] ELSE evs[k + 1]]
         IN <<evs[i]>> \o SortByTime(rest)

GetTracking(parcelId) ==
    SortByTime(SelectSeq(tracking, LAMBDA e : e.parcel_id = parcelId))

\* ---------------------------------------- PATCH /parcels/:trackingId/payment
AlreadyPaidNever(parcel) == FALSE

AlreadyPaid(parcel) == parcel.paymentStatus = "Paid"

\* store calls: 1 parcelCollection.findOne, 2 parcelCollection.updateOne,
\* 3 paymentCollection.insertOne, 4 notificationCollection.insertOne
ConfirmPayment(tok, trackingId, body, f) ==
    LET gate == verifyJWT(tok)
        pid == IdByTracking(trackingId)
        parcel == parcels[pid]
        paymentInfo == [paymentIntentId |-> body.paymentIntentId,
                        amount |-> body.amount,
                        paidAt |-> now,
                        payerEmail |-> body.payerEmail]
        record == [paymentIntentId |-> body.paymentIntentId,
                   amount |-> body.amount,
                   paidAt |-> now,
                   payerEmail |-> body.payerEmail,
                   trackingId |-> trackingId,
                   region |-> parcel.senderRegion,
                   receiverRegion |-> parcel.receiverRegion]
    IN IF gate # Pass
       THEN /\ resp' = PaymentResponse(trackingId, gate, "rejected")
            /\ UNCHANGED <<stores, now>>
       ELSE IF f = 1
       THEN /\ resp' = PaymentResponse(trackingId, 500, "Failed to update payment info")
            /\ UNCHANGED <<stores, now>>
       ELSE IF pid = NoId
       THEN /\ resp' = PaymentResponse(trackingId, 404, "Parcel not found")
            /\ UNCHANGED <<stores, now>>
       ELSE IF AlreadyPaid(parcel)
       THEN /\ resp' = PaymentResponse(trackingId, 409, "Parcel already paid")
            /\ UNCHANGED <<stores, now>>
       ELSE /\ parcels' = IF f = 2 THEN parcels
                          ELSE SetFields(parcels, pid,
                                 [paymentStatus |-> "Paid", paymentInfo |-> paymentInfo])
            /\ payments' = IF f \in {2, 3} THEN payments
                           ELSE InsertDoc(payments, nextPayId, record)
            /\ nextPayId' = IF f \in {2, 3} THEN nextPayId ELSE nextPayId + 1
            /\ notifications' = IF f # 0 THEN notifications
                                ELSE Append(notifications,
                                            Notification("Payment Successful", body.payerEmail, FALSE))
            /\ resp' = IF f # 0 THEN PaymentResponse(trackingId, 500, "Failed to update payment info")
                       ELSE PaymentResponse(trackingId, 200, "success")
            /\ UNCHANGED <<nextId, tracking, logs, users, now>>

\* -------------------------------------------------------------- the clock
\* new Date(): the wall clock only moves forward.
Tick(t) ==
    /\ t > now
    /\ now' = t
    /\ UNCHANGED <<stores, resp>>

\* ----------------------------------------------- DELETE /admin/payments/:id
\* store calls: 1 paymentCollection.findOne, 2 paymentCollection.deleteOne,
\* 3 logCollection.insertOne, 4 notificationCollection.insertOne.  The parcel
\* the record was written for is not touched.
AdminDeletePayment(tok, id, f) ==
    LET gate == verifyJWT(tok)
        paymentRecord == payments[id]
    IN IF gate # Pass
       THEN /\ resp' = Response("adminDeletePayment", gate, "rejected")
            /\ UNCHANGED <<stores, now>>
       ELSE IF verifyAdmin(tok) # Pass
       THEN /\ resp' = Response("adminDeletePayment", 403, "Forbidden")
            /\ UNCHANGED <<stores, now>>
       ELSE IF f = 1
       THEN /\ resp' = Response("adminDeletePayment", 500, "Internal server error")
            /\ UNCHANGED <<stores, now>>
       ELSE IF id \notin DOMAIN payments
       THEN /\ resp' = Response("adminDeletePayment", 404, "Payment record not found")
            /\ UNCHANGED <<stores, now>>
       ELSE /\ payments' = IF f = 2 THEN payments ELSE DeleteDoc(payments, id)
            /\ logs' = IF f \in {2, 3} THEN logs
                       ELSE Append(logs, AuditLog(tok, "Deleted Payment Record",
                                                  paymentRecord.payerEmail))
            /\ notifications' = IF f # 0 THEN notifications
                                ELSE Append(notifications,
                                            Notification("Payment Record Deleted",
                                                         paymentRecord.payerEmail, TRUE))
            /\ resp' = IF f # 0 THEN Response("adminDeletePayment", 500, "Internal server error")
                       ELSE Response("adminDeletePayment", 200, "success")
            /\ UNCHANGED <<parcels, nextId, tracking, nextPayId, users, now>>

\* ---------------------------------------------------------------- POST /users
\* No identity gate.  The request body is $set as it is on the user document
\* with the body's email, which is inserted when there is none (upsert).
\* store calls: 1 userCollection.updateOne, 2 notificationCollection.insertOne
\* the fields the body carries besides email
UserFields(body) == [k \in {x \in {"role"} : body[x] # Undefined} |-> body[k]]

\* a user document without role; a missing isRestricted reads as false
BlankUser == [role |-> Undefined, isRestricted |-> FALSE]

UpsertUser(body, f) ==
    IF body.email = Undefined
    THEN /\ resp' = Response("users", 400, "Invalid or missing email")
         /\ UNCHANGED <<stores, now>>
    ELSE LET isNewUser == body.email \notin DOMAIN users
             upserted == IF isNewUser THEN users @@ (body.email :> BlankUser) ELSE users
         IN /\ users' = IF f = 1 THEN users ELSE SetFields(upserted, body.email, UserFields(body))
            /\ notifications' = IF f # 0 THEN notifications
                                ELSE Append(notifications,
                                            Notification(IF isNewUser THEN "Welcome to Profast!"
                                                         ELSE "Profile Updated", body.email, FALSE))
            /\ resp' = IF f # 0 THEN Response("users", 500, "Failed to save user")
                       ELSE Response("users", 200, "success")
            /\ UNCHANGED <<parcels, nextId, tracking, payments, nextPayId, logs, now>>

\* ------------------------------------------------ PATCH /users/:email/role
\* store calls: 1 userCollection.updateOne, 2 logCollection.insertOne,
\* 3 notificationCollection.insertOne
UpdateRole(tok, email, role, f) ==
    LET gate == verifyJWT(tok)
    IN IF gate # Pass
       THEN /\ resp' = Response("role", gate, "rejected")
            /\ UNCHANGED <<stores, now>>
       ELSE IF verifyAdmin(tok) # Pass
       THEN /\ resp' = Response("role", 403, "Forbidden")
            /\ UNCHANGED <<stores, now>>
       ELSE IF role = Undefined
       THEN /\ resp' = Response("role", 400, "Role is required")
            /\ UNCHANGED <<stores, now>>
       ELSE /\ users' = IF f = 1 THEN users ELSE SetFields(users, email, [role |-> role])
            /\ logs' = IF f \in {1, 2} THEN logs
                       ELSE Append(logs, AuditLog(tok, "Updated User Role", email))
            /\ notifications' = IF f # 0 THEN notifications
                                ELSE Append(notifications, Notification("Role Updated", email, TRUE))
            /\ resp' = IF f # 0 THEN Response("role", 500, "Failed to update role")
                       ELSE Response("role", 200, "success")
            /\ UNCHANGED <<parcels, nextId, tracking, payments, nextPayId, now>>

\* ------------------------------------------- PATCH /users/:email/restrict
\* store calls: 1 userCollection.findOne, 2 userCollection.updateOne,
\* 3 logCollection.insertOne, 4 notificationCollection.insertOne
RestrictUser(tok, email, restricted, f) ==
    LET gate == verifyJWT(tok)
    IN IF gate # Pass
       THEN /\ resp' = Response("restrict", gate, "rejected")
            /\ UNCHANGED <<stores, now>>
       ELSE IF verifyAdmin(tok) # Pass
       THEN /\ resp' = Response("restrict", 403, "Forbidden")
            /\ UNCHANGED <<stores, now>>
       ELSE IF f = 1
       THEN /\ resp' = Response("restrict", 500, "Failed to update restriction")
            /\ UNCHANGED <<stores, now>>
       ELSE IF email \notin DOMAIN users
       THEN /\ resp' = Response("restrict", 404, "User not found")
            /\ UNCHANGED <<stores, now>>
       ELSE IF users[email].role = "admin"
       THEN /\ resp' = Response("restrict", 403, "Admin users cannot be restricted")
            /\ UNCHANGED <<stores, now>>
       ELSE /\ users' = IF f = 2 THEN users
                        ELSE SetFields(users, email, [isRestricted |-> restricted])
            /\ logs' = IF f \in {2, 3} THEN logs
                       ELSE Append(logs, AuditLog(tok, IF restricted THEN "Restricted System Access"
                                                       ELSE "Unblocked System Access", email))
            /\ notifications' = IF f # 0 THEN notifications
                                ELSE Append(notifications,
                                            Notification(IF restricted THEN "Access Restricted"
                                                         ELSE "Access Restored", email, TRUE))
            /\ resp' = IF f # 0 THEN Response("restrict", 500, "Failed to update restriction")
                       ELSE Response("restrict", 200, "success")
            /\ UNCHANGED <<parcels, nextId, tracking, payments, nextPayId, now>>

\* -------------------------------------------- a store failure inside the gate
\* verifyJWT hands jwt.verify an async callback; when the callback's
\* userCollection.findOne throws, the callback's promise is rejected and
\* nothing awaits it: neither next() nor res.send() is called, whatever the
\* router.  op is the endpoint the request was for.
GateLookupFails(op, tok) ==
    /\ tok \notin {NoToken, BadToken}
    /\ resp' = Response(op, NoResponse, "unhandled rejection")
    /\ UNCHANGED <<stores, now>>

\* ------------------------------------ payment confirmations, await by await
\* The payment handler suspends at each await; between two awaits its code
\* runs without interruption, and other requests run while it is suspended.
\* A request holds the parcel document its findOne returned.
IdleRequest ==
    [pc |-> "idle", trackingId |-> Undefined, paymentIntentId |-> Undefined, amount |-> 0,
     payerEmail |-> Undefined, pid |-> NoId, paymentStatus |-> Undefined,
     senderRegion |-> Undefined, receiverRegion |-> Undefined, code |-> 0]

\* the request answers: res.status(code).send(...)
Answer(r, code, msg) ==
    /\ requests' = [requests EXCEPT ![r].pc = "done", ![r].code = code]
    /\ resp' = PaymentResponse(requests[r].trackingId, code, msg)

\* verifyJWT, then const parcel = await parcelCollection.findOne({ trackingId })
PayFindOne(r, tok, trackingId, body) ==
    LET gate == verifyJWT(tok)
        pid == IdByTracking(trackingId)
    IN /\ requests[r].pc = "idle"
       /\ IF gate # Pass
          THEN /\ requests' = [requests EXCEPT ![r].pc = "done", ![r].code = gate,
                                               ![r].trackingId = trackingId]
               /\ resp' = PaymentResponse(trackingId, gate, "rejected")
          ELSE /\ requests' = [requests EXCEPT ![r] =
                    [pc |-> "found", trackingId |-> trackingId,
                     paymentIntentId |-> body.paymentIntentId, amount |-> body.amount,
                     payerEmail |-> body.payerEmail, pid |-> pid,
                     paymentStatus |-> IF pid = NoId THEN Undefined ELSE parcels[pid].paymentStatus,
                     senderRegion |-> IF pid = NoId THEN Undefined ELSE parcels[pid].senderRegion,
                     receiverRegion |-> IF pid = NoId THEN Undefined ELSE parcels[pid].receiverRegion,
                     code |-> 0]]
               /\ UNCHANGED resp
       /\ UNCHANGED <<stores, now>>

\* the not-found and already-paid checks on the document read, then
\* await parcelCollection.updateOne({ trackingId }, { $set: ... })
PayUpdateOne(r) ==
    LET req == requests[r]
        paymentInfo == [paymentIntentId |-> req.paymentIntentId,
                        amount |-> req.amount,
                        paidAt |-> now,
                        payerEmail |-> req.payerEmail]
    IN /\ req.pc = "found"
       /\ IF req.pid = NoId
          THEN Answer(r, 404, "Parcel not found") /\ UNCHANGED parcels
          ELSE IF AlreadyPaid(req)
          THEN Answer(r, 409, "Parcel already paid") /\ UNCHANGED parcels
          ELSE /\ parcels' = SetFields(parcels, IdByTracking(req.trackingId),
                                 [paymentStatus |-> "Paid", paymentInfo |-> paymentInfo])
               /\ requests' = [requests EXCEPT ![r].pc = "updated"]
               /\ UNCHANGED resp
       /\ UNCHANGED <<nextId, tracking, payments, nextPayId, notifications, logs, users, now>>

\* await paymentCollection.insertOne({...})
PayInsertOne(r) ==
    LET req == requests[r]
        record == [paymentIntentId |-> req.paymentIntentId,
                   amount |-> req.amount,
                   paidAt |-> now,
                   payerEmail |-> req.payerEmail,
                   trackingId |-> req.trackingId,
                   region |-> req.senderRegion,
                   receiverRegion |-> req.receiverRegion]
    IN /\ req.pc = "updated"
       /\ payments' = InsertDoc(payments, nextPayId, record)
       /\ nextPayId' = nextPayId + 1
       /\ requests' = [requests EXCEPT ![r].pc = "recorded"]
       /\ UNCHANGED <<parcels, nextId, tracking, notifications, logs, users, now, resp>>

\* await notificationCollection.insertOne({...}); res.send({ success: true })
PayNotify(r) ==
    /\ requests[r].pc = "recorded"
    /\ notifications' = Append(notifications,
                               Notification("Payment Successful", requests[r].payerEmail, FALSE))
    /\ Answer(r, 200, "success")
    /\ UNCHANGED <<parcels, nextId, tracking, payments, nextPayId, logs, users, now>>

\* ------------------------------------------ parcel requests, await by await
\* The delete, cancel and admin status handlers suspend at each await like
\* the payment handler.  The merchant and the admin each have at most one
\* such request in flight; it holds the document its findOne returned.
Clients == {"merchant", "admin"}

\* what findOne returns when no document matches, as a document
NoDoc ==
    NewParcel([trackingId |-> Undefined, tracking_Id |-> Undefined, email |-> Undefined,
               senderRegion |-> Undefined, receiverRegion |-> Undefined,
               senderWarehouse |-> Undefined, receiverWarehouse |-> Undefined,
               status |-> "Pending", paymentStatus |-> "Not Paid", createdAt |-> NoDate],
              NoDate)

IdleInflight ==
    [kind |-> "idle", pc |-> "idle", tok |-> NoToken, id |-> NoId, found |-> FALSE,
     doc |-> NoDoc, newStatus |-> Undefined, code |-> 0]

\* the request of client c answers: res.status(code).send(...)
Reply(c, code, msg) ==
    /\ inflight' = [inflight EXCEPT ![c].pc = "done", ![c].code = code]
    /\ resp' = Response(inflight[c].kind, code, msg)

\* verifyJWT (and verifyAdmin for the admin's endpoint), then
\* const parcel = await parcelCollection.findOne({ _id: new ObjectId(id) })
FindOne(c, kind, tok, id, newStatus) ==
    LET gate == verifyJWT(tok)
        code == IF gate # Pass THEN gate
                ELSE IF kind = "adminStatus" /\ verifyAdmin(tok) # Pass THEN 403
                ELSE Pass
    IN /\ inflight[c].pc \in {"idle", "done"}
       /\ IF code # Pass
          THEN /\ inflight' = [inflight EXCEPT ![c] =
                    [IdleInflight EXCEPT !.kind = kind, !.pc = "done", !.tok = tok,
                                         !.id = id, !.code = code]]
               /\ resp' = Response(kind, code, "rejected")
          ELSE /\ inflight' = [inflight EXCEPT ![c] =
                    [kind |-> kind, pc |-> "found", tok |-> tok, id |-> id, found |-> Found(id),
                     doc |-> IF Found(id) THEN parcels[id] ELSE NoDoc,
                     newStatus |-> newStatus, code |-> 0]]
               /\ UNCHANGED resp
       /\ UNCHANGED <<stores, now>>

\* DELETE /parcels/:id: the checks on the document read, then
\* await parcelCollection.deleteOne({ _id })
DelDeleteOne(c) ==
    LET req == inflight[c]
    IN /\ req.kind = "delete" /\ req.pc = "found"
       /\ IF ~req.found
          THEN Reply(c, 404, "Parcel not found") /\ UNCHANGED parcels
          ELSE IF ~Terminal(req.doc.status)
          THEN /\ Reply(c, 400, "Only delivered or cancelled parcels can be deleted.")
               /\ UNCHANGED parcels
          ELSE /\ parcels' = DeleteDoc(parcels, req.id)
               /\ inflight' = [inflight EXCEPT ![c].pc = "deleted"]
               /\ UNCHANGED resp
       /\ UNCHANGED <<nextId, tracking, payments, nextPayId, notifications, logs, users, now>>

\* await notificationCollection.insertOne({...}); res.send({ success: true, result })
DelNotify(c) ==
    /\ inflight[c].kind = "delete" /\ inflight[c].pc = "deleted"
    /\ notifications' = Append(notifications,
                               Notification("Parcel Deleted", ToUser(inflight[c].doc), FALSE))
    /\ Reply(c, 200, "success")
    /\ UNCHANGED <<parcels, nextId, tracking, payments, nextPayId, logs, users, now>>

\* PATCH /parcels/:id/cancel: the not-found check and the business rules on
\* the document read, then await parcelCollection.updateOne({ _id }, { $set })
CanUpdateOne(c) ==
    LET req == inflight[c]
    IN /\ req.kind = "cancel" /\ req.pc = "found"
       /\ IF ~req.found
          THEN Reply(c, 404, "Parcel not found") /\ UNCHANGED parcels
          ELSE IF CancelRules(req.doc, now) # Allowed
          THEN Reply(c, 400, CancelRules(req.doc, now)) /\ UNCHANGED parcels
          ELSE /\ parcels' = SetFields(parcels, req.id, [status |-> "Cancelled"])
               /\ inflight' = [inflight EXCEPT ![c].pc = "updated"]
               /\ UNCHANGED resp
       /\ UNCHANGED <<nextId, tracking, payments, nextPayId, notifications, logs, users, now>>

\* the notification document is built (dayjs() throws) and inserted, then
\* res.send({ success: true, result }); the catch block answers 500
CanNotify(c) ==
    /\ inflight[c].kind = "cancel" /\ inflight[c].pc = "updated"
    /\ IF DayjsDefined
       THEN /\ notifications' = Append(notifications,
                    Notification("Parcel Cancelled", ToUser(inflight[c].doc), FALSE))
            /\ Reply(c, 200, "success")
       ELSE /\ UNCHANGED notifications
            /\ Reply(c, 500, "Failed to cancel parcel")
    /\ UNCHANGED <<parcels, nextId, tracking, payments, nextPayId, logs, users, now>>

\* PATCH /admin/parcels/:id/status: the not-found check on the document
\* read, then await parcelCollection.updateOne({ _id }, { $set })
AdmUpdateOne(c) ==
    LET req == inflight[c]
    IN /\ req.kind = "adminStatus" /\ req.pc = "found"
       /\ IF ~req.found
          THEN Reply(c, 404, "Parcel not found") /\ UNCHANGED parcels
          ELSE /\ parcels' = SetFields(parcels, req.id,
                                 [status |-> Bson(req.newStatus),
                                  deliveredAt |-> DeliveredAt(req.newStatus, now)])
               /\ inflight' = [inflight EXCEPT ![c].pc = "updated"]
               /\ UNCHANGED resp
       /\ UNCHANGED <<nextId, tracking, payments, nextPayId, notifications, logs, users, now>>

\* await trackingCollection.insertOne({...})
AdmInsertLog(c) ==
    LET req == inflight[c]
    IN /\ req.kind = "adminStatus" /\ req.pc = "updated"
       /\ tracking' = TrackingInsert(tracking,
                           StatusLog(req.doc, req.id, req.newStatus, Undefined, now))
       /\ inflight' = [inflight EXCEPT ![c].pc = "logged"]
       /\ UNCHANGED <<parcels, nextId, payments, nextPayId, notifications, logs, users, now, resp>>

\* await notificationCollection.insertOne({...})
AdmNotify(c) ==
    /\ inflight[c].kind = "adminStatus" /\ inflight[c].pc = "logged"
    /\ notifications' = Append(notifications,
                               Notification("Parcel Status Update", ToUser(inflight[c].doc), TRUE))
    /\ inflight' = [inflight EXCEPT ![c].pc = "notified"]
    /\ UNCHANGED <<parcels, nextId, tracking, payments, nextPayId, logs, users, now, resp>>

\* await logCollection.insertOne({...}); res.send({ success: true })
AdmAudit(c) ==
    /\ inflight[c].kind = "adminStatus" /\ inflight[c].pc = "notified"
    /\ logs' = Append(logs, AuditLog(inflight[c].tok, "Updated Parcel Status",
                                     ToUser(inflight[c].doc)))
    /\ Reply(c, 200, "success")
    /\ UNCHANGED <<parcels, nextId, tracking, payments, nextPayId, notifications, users, now>>

\* ------------------------------------------------------------ initial state
\* The server starts on empty parcel, tracking, payment, notification and log
\* collections; the user collection holds an admin, a merchant and a
\* restricted account.
InitUsers ==
    (AdminEmail :> [role |-> "admin", isRestricted |-> FALSE])
    @@ (MerchantEmail :> [role |-> "merchant", isRestricted |-> FALSE])
    @@ (RestrictedEmail :> [role |-> "merchant", isRestricted |-> TRUE])

Init ==
    /\ parcels = <<>>
    /\ nextId = 1
    /\ tracking = <<>>
    /\ payments = <<>>
    /\ nextPayId = 1
    /\ notifications = <<>>
    /\ logs = <<>>
    /\ users = InitUsers
    /\ now = 0
    /\ resp = [op |-> "none", code |-> 0, msg |-> "none", at |-> 0, key |-> Undefined]
    /\ requests = [r \in 1..MaxRequests |-> IdleRequest]
    /\ inflight = [c \in Clients |-> IdleInflight]

\* ------------------------------------------------------------ request inputs
Regions == {"A", "B"}
Warehouses == {CentralHub, "Hub1", "Hub2"}
Statuses == {"Pending", "PickedUp", "InTransit", "OutForDelivery", "Delivered", "Cancelled"}

ParcelBody(trackingId, email, sr, rr, sw, rw) ==
    [trackingId |-> trackingId, tracking_Id |-> Undefined, email |-> email,
     senderRegion |-> sr, receiverRegion |-> rr,
     senderWarehouse |-> sw, receiverWarehouse |-> rw,
     status |-> "Delivered", paymentStatus |-> "Paid", createdAt |-> 0]

\* Spec: every handler, one request at a time, called by the admin (who
\* passes both gates).  Parcels are cross-region Hub1 -> Hub2 parcels with
\* tracking code T1; the admin sets Delivered; POST /tracking posts a status
\* outside the lifecycle set, with or without a parcel_id; the admin edit
\* resets paymentStatus.  Store failures are injected into POST /parcels and
\* the payment confirmation.
Bodies == {ParcelBody("T1", MerchantEmail, "A", "B", "Hub1", "Hub2")}

Callers == {AdminEmail}
NewStatuses == {"Delivered"}
Edits == {[paymentStatus |-> "Not Paid"]}

TrackingBodies ==
    {[tracking_Id |-> "T1", parcel_id |-> p, status |-> "Lost",
      message |-> <<"scan">>, updated_by |-> "rider"] : p \in (1..MaxParcels) \cup {NoId}}

PaymentBodies == {[paymentIntentId |-> "pi_1", amount |-> 100, payerEmail |-> MerchantEmail]}

PayCodes == {"T1"}

\* documents in the append-only collections, and room for n more
Docs == Len(tracking) + Len(notifications) + Len(logs) + (nextPayId - 1)

Room(n) == Docs + n <= MaxDocs

Next ==
    \/ /\ nextId <= MaxParcels /\ Room(2)
       /\ \E tok \in Callers, body \in Bodies, f \in 0..3 : CreateParcel(tok, body, f)
       /\ UNCHANGED <<requests, inflight>>
    \/ /\ Room(1)
       /\ \E tok \in Callers, id \in 1..MaxParcels, f \in {0} : CancelParcel(tok, id, f)
       /\ UNCHANGED <<requests, inflight>>
    \/ /\ Room(1)
       /\ \E tok \in Callers, id \in 1..MaxParcels, f \in {0} : DeleteParcel(tok, id, f)
       /\ UNCHANGED <<requests, inflight>>
    \/ /\ Room(3)
       /\ \E tok \in Callers, id \in 1..MaxParcels, st \in NewStatuses, f \in {0} :
            AdminUpdateStatus(tok, id, st, Undefined, f)
       /\ UNCHANGED <<requests, inflight>>
    \/ /\ Room(2)
       /\ \E tok \in Callers, id \in 1..MaxParcels, f \in {0} : AdminDeleteParcel(tok, id, f)
       /\ UNCHANGED <<requests, inflight>>
    \/ /\ Room(1)
       /\ \E tok \in Callers, id \in 1..MaxParcels, e \in Edits, f \in {0} :
            AdminEditParcel(tok, id, e, f)
       /\ UNCHANGED <<requests, inflight>>
    \/ /\ Room(1)
       /\ \E body \in TrackingBodies, f \in {0} : PostTracking(body, f)
       /\ UNCHANGED <<requests, inflight>>
    \/ /\ Room(2)
       /\ \E tok \in Callers, t \in PayCodes, body \in PaymentBodies, f \in 0..4 :
            ConfirmPayment(tok, t, body, f)
       /\ UNCHANGED <<requests, inflight>>

Spec == Init /\ [][Next]_vars

\* ------------------------------------------------- the cancellation policy
\* SpecPolicy: one parcel with any regions and warehouses, stored by a
\* POST /parcels at instant 0; the clock then moves through the instants
\* around the 8-hour and the 24-hour limits while cancel requests arrive.
PolicyBodies ==
    {ParcelBody("T1", MerchantEmail, sr, rr, sw, rw) :
        sr \in Regions, rr \in Regions, sw \in Warehouses, rw \in Warehouses}

PolicyInstants ==
    {h * TicksPerHour + d : h \in {Limit8, Limit24}, d \in {0 - 1, 0, 1}}

InitPolicy ==
    \E body \in PolicyBodies :
        /\ parcels = (1 :> NewParcel(body, 0))
        /\ nextId = 2
        /\ tracking = <<InitialLog(body, 1, 0)>>
        /\ payments = <<>>
        /\ nextPayId = 1
        /\ notifications = <<Notification("Parcel Created", body.email, FALSE)>>
        /\ logs = <<>>
        /\ users = InitUsers
        /\ now = 0
        /\ resp = [op |-> "create", code |-> 201, msg |-> "created", at |-> 0, key |-> Undefined]
        /\ requests = [r \in 1..MaxRequests |-> IdleRequest]
        /\ inflight = [c \in Clients |-> IdleInflight]

PolicyCallers == {NoToken, MerchantEmail}

NextPolicy ==
    \/ /\ \E t \in PolicyInstants : Tick(t)
       /\ UNCHANGED <<requests, inflight>>
    \/ /\ \E tok \in PolicyCallers, id \in 1..2, f \in 0..2 : CancelParcel(tok, id, f)
       /\ UNCHANGED <<requests, inflight>>

SpecPolicy == InitPolicy /\ [][NextPolicy]_vars

\* The policy as the specification words it, first match wins; elapsed is in ticks.
ReferencePolicy(p, elapsed) ==
    LET sameRegion == p.senderRegion = p.receiverRegion
        rule1 == sameRegion /\ p.senderWarehouse = "Central Hub" /\ p.receiverWarehouse = "Central Hub"
        rule2 == elapsed > 24 * TicksPerHour
        rule3 == sameRegion /\ p.senderWarehouse # p.receiverWarehouse /\ elapsed > 8 * TicksPerHour
    IN CASE rule1 -> SameHubMsg
         [] ~rule1 /\ rule2 -> Within24Msg
         [] ~rule1 /\ ~rule2 /\ rule3 -> Within8Msg
         [] OTHER -> Allowed

\* a cancel request that passed the identity gate and found its parcel, with
\* no store failure
Cancels(id) == CancelParcel(MerchantEmail, id, 0) /\ Found(id)

\* C2: a cancel request is denied with the reference policy's reason exactly
\* when the reference policy denies it, and goes on to write Cancelled exactly
\* when the reference policy allows it, for every regions, warehouses and
\* elapsed time.
C2_PolicyMatchesReference ==
    [][\A id \in 1..2 :
        Cancels(id) =>
            LET want == ReferencePolicy(parcels[id], now - parcels[id].createdAt)
            IN IF want = Allowed
               THEN resp'.code # 400 /\ parcels'[id].status = "Cancelled"
               ELSE resp'.code = 400 /\ resp'.msg = want /\ parcels' = parcels]_vars

\* a same-hub parcel denied with the same-hub reason after more than 24 hours
C2_Witness ==
    /\ resp.op = "cancel" /\ resp.code = 400 /\ resp.msg = SameHubMsg
    /\ resp.at > Limit24 * TicksPerHour
    /\ 1 \in DOMAIN parcels /\ parcels[1].createdAt = 0

\* C3: the limits are inclusive: at exactly 24 hours the 24-hour rule does not
\* deny, at exactly 8 hours the 8-hour rule does not deny, and a time rule
\* denies only when the elapsed time strictly exceeds its limit.
C3_LimitsInclusive ==
    [][\A id \in 1..2 :
        Cancels(id) =>
            LET elapsed == now - parcels[id].createdAt
            IN /\ elapsed = Limit24 * TicksPerHour => resp'.msg # Within24Msg
               /\ elapsed = Limit8 * TicksPerHour => resp'.msg # Within8Msg
               /\ resp'.msg = Within24Msg => elapsed > Limit24 * TicksPerHour
               /\ resp'.msg = Within8Msg => elapsed > Limit8 * TicksPerHour
               /\ (/\ elapsed \in {Limit8 * TicksPerHour, Limit24 * TicksPerHour}
                   /\ resp'.code # 400) => parcels'[id].status = "Cancelled"]_vars

\* a same-region cross-hub parcel whose cancel went through at exactly 8 hours
C3_Witness ==
    /\ resp.op = "cancel" /\ resp.code \notin {400, 401, 404}
    /\ resp.at = Limit8 * TicksPerHour
    /\ 1 \in DOMAIN parcels
    /\ parcels[1].createdAt = 0
    /\ parcels[1].status = "Cancelled"
    /\ parcels[1].senderRegion = parcels[1].receiverRegion
    /\ parcels[1].senderWarehouse # parcels[1].receiverWarehouse

\* C4: for a same-region parcel with different warehouses, a cancel more than
\* 8 and at most 24 hours after creation is denied with the 8-hour reason, and
\* a cancel at most 8 hours after creation is allowed.
C4_SameRegionCrossHub ==
    [][\A id \in 1..2 :
        (/\ Cancels(id)
         /\ parcels[id].senderRegion = parcels[id].receiverRegion
         /\ parcels[id].senderWarehouse # parcels[id].receiverWarehouse) =>
            LET elapsed == now - parcels[id].createdAt
            IN /\ (elapsed > 8 * TicksPerHour /\ elapsed <= 24 * TicksPerHour) =>
                    resp' = Response("cancel", 400, Within8Msg) /\ parcels' = parcels
               /\ elapsed <= 8 * TicksPerHour =>
                    resp'.code # 400 /\ parcels'[id].status = "Cancelled"]_vars

\* a Hub1 -> Hub2 parcel of one region denied with the 8-hour reason before 24 hours
C4_Witness ==
    /\ resp.op = "cancel" /\ resp.code = 400 /\ resp.msg = Within8Msg
    /\ resp.at <= Limit24 * TicksPerHour
    /\ 1 \in DOMAIN parcels
    /\ parcels[1].status = "Pending"
    /\ parcels[1].senderWarehouse = "Hub1" /\ parcels[1].receiverWarehouse = "Hub2"

\* C5: a cancel request that the policy denies answers 400 with the reason
\* and writes nothing: parcels, tracking ledger, notifications (and every
\* other collection) are unchanged by the request.
C5_DeniedCancelWritesNothing ==
    [][\A id \in 1..2, f \in {0, 2} :
        (/\ CancelParcel(MerchantEmail, id, f)
         /\ Found(id)
         /\ ReferencePolicy(parcels[id], now - parcels[id].createdAt) # Allowed) =>
            /\ resp'.code = 400
            /\ resp'.msg \in {SameHubMsg, Within24Msg, Within8Msg}
            /\ parcels' = parcels
            /\ tracking' = tracking
            /\ notifications' = notifications
            /\ UNCHANGED <<payments, logs>>]_vars

\* a denied cancel: the parcel is still Pending and only its creation was notified
C5_Witness ==
    /\ resp.op = "cancel" /\ resp.code = 400
    /\ 1 \in DOMAIN parcels /\ parcels[1].status = "Pending"
    /\ Len(tracking) = 1
    /\ Len(notifications) = 1

\* C6: a cancel request for an existing parcel that the policy allows sets the
\* status to Cancelled, emits a cancellation notification and answers 200
\* with success:true.
C6_AllowedCancelSucceeds ==
    [][\A id \in 1..2 :
        (/\ Cancels(id)
         /\ ReferencePolicy(parcels[id], now - parcels[id].createdAt) = Allowed) =>
            /\ parcels'[id].status = "Cancelled"
            /\ Len(notifications') = Len(notifications) + 1
            /\ notifications'[Len(notifications')].title = "Parcel Cancelled"
            /\ resp'.code = 200
            /\ resp'.msg = "success"]_vars

\* ----------------------------------------------- lifecycle and ledger claims
\* C1: every stored parcel's status is one of the six lifecycle statuses.
C1_StatusInLifecycleSet ==
    \A id \in DOMAIN parcels : parcels[id].status \in Statuses

\* C7: every step that changes a stored parcel's status appends exactly one
\* tracking event, for that parcel, carrying the new status.
C7_StatusChangeAppendsEvent ==
    [][\A id \in DOMAIN parcels \cap DOMAIN parcels' :
        parcels'[id].status # parcels[id].status =>
            /\ Len(tracking') = Len(tracking) + 1
            /\ tracking'[Len(tracking')].parcel_id = id
            /\ tracking'[Len(tracking')].status = parcels'[id].status]_vars

\* C8: every stored parcel has at least one tracking event, among them the
\* Pending event written by System at creation, and the events listed for it
\* are in non-decreasing timestamp order.
C8_ParcelHasCreationEvent ==
    \A id \in DOMAIN parcels :
        LET evs == GetTracking(id)
        IN /\ Len(evs) >= 1
           /\ \E i \in 1..Len(evs) : evs[i].status = "Pending" /\ evs[i].updated_by = "System"
           /\ \A i \in 1..(Len(evs) - 1) : evs[i].time <= evs[i + 1].time

\* C9: the tracking ledger is append-only: every step keeps every event
\* already written, unchanged and at its place.
C9_LedgerAppendOnly ==
    [][/\ Len(tracking') >= Len(tracking)
       /\ \A i \in 1..Len(tracking) : tracking'[i] = tracking[i]]_vars

\* a parcel was deleted and the events written for it are still in the ledger
C9_Witness ==
    /\ resp.op \in {"delete", "adminDelete"} /\ resp.code = 200
    /\ \E i \in 1..Len(tracking) :
        /\ tracking[i].parcel_id # NoId
        /\ tracking[i].parcel_id \notin DOMAIN parcels
        /\ tracking[i].parcel_id < nextId

\* SpecPay: payment confirmations with either of two payment intents, for a
\* tracking code in use and for one that is not, among parcel creation,
\* cancellation, deletion and the admin edit that resets paymentStatus.
PayBodies ==
    {[paymentIntentId |-> pi, amount |-> 100, payerEmail |-> MerchantEmail] : pi \in {"pi_1", "pi_2"}}

PayCodesAny == {"T1", "T9"}

NextPay ==
    \/ /\ nextId <= MaxParcels
       /\ \E body \in Bodies : CreateParcel(AdminEmail, body, 0)
       /\ UNCHANGED <<requests, inflight>>
    \/ /\ nextPayId <= MaxPayments
       /\ \E t \in PayCodesAny, body \in PayBodies, f \in 0..4 : ConfirmPayment(AdminEmail, t, body, f)
       /\ UNCHANGED <<requests, inflight>>
    \/ /\ Len(logs) < MaxLogs
       /\ \E id \in 1..MaxParcels, e \in Edits : AdminEditParcel(AdminEmail, id, e, 0)
       /\ UNCHANGED <<requests, inflight>>
    \/ /\ \E id \in 1..MaxParcels : CancelParcel(AdminEmail, id, 0)
       /\ UNCHANGED <<requests, inflight>>
    \/ /\ \E id \in 1..MaxParcels : DeleteParcel(AdminEmail, id, 0)
       /\ UNCHANGED <<requests, inflight>>

SpecPay == Init /\ [][NextPay]_vars

\* payment records held for a tracking code
PaymentCount(t) == Cardinality({i \in DOMAIN payments : payments[i].trackingId = t})

\* C10: a payment confirmation that answers 200 marks the parcel Paid with
\* its own payment record and adds exactly one ledger entry for the tracking
\* code; a confirmation for the same code right after it answers 409 and
\* changes nothing, so the ledger entry and the parcel's payment record stay
\* those of the first call.
C10_SecondPaymentConflicts ==
    [][\A t \in PayCodesAny, body \in PayBodies :
        /\ (ConfirmPayment(AdminEmail, t, body, 0) /\ resp'.code = 200) =>
                /\ PaymentCount(t)' = PaymentCount(t) + 1
                /\ parcels'[IdByTracking(t)].paymentStatus = "Paid"
                /\ parcels'[IdByTracking(t)].paymentInfo.paymentIntentId = body.paymentIntentId
        /\ (/\ resp.op = "payment" /\ resp.code = 200 /\ resp.key = t
            /\ ConfirmPayment(AdminEmail, t, body, 0)) =>
                /\ resp'.code = 409
                /\ UNCHANGED stores]_vars

\* the second confirmation was refused: one ledger entry, the parcel is Paid
C10_Witness ==
    /\ resp.op = "payment" /\ resp.code = 409 /\ resp.key = "T1"
    /\ PaymentCount("T1") = 1
    /\ IdByTracking("T1") # NoId
    /\ parcels[IdByTracking("T1")].paymentStatus = "Paid"
    /\ parcels[IdByTracking("T1")].paymentInfo.paymentIntentId = payments[1].paymentIntentId

\* ------------------------------------------- concurrent payment confirmations
\* SpecRace: MaxRequests payment confirmations, each run once, interleaved at
\* their awaits, for a tracking code in use or not, while the parcel is created.
NextRace ==
    \/ /\ nextId <= MaxParcels
       /\ \E body \in Bodies : CreateParcel(AdminEmail, body, 0)
       /\ UNCHANGED <<requests, inflight>>
    \/ /\ \E r \in 1..MaxRequests, t \in PayCodesAny, body \in PayBodies :
            PayFindOne(r, MerchantEmail, t, body)
       /\ UNCHANGED inflight
    \/ /\ \E r \in 1..MaxRequests : PayUpdateOne(r)
       /\ UNCHANGED inflight
    \/ /\ \E r \in 1..MaxRequests : PayInsertOne(r)
       /\ UNCHANGED inflight
    \/ /\ \E r \in 1..MaxRequests : PayNotify(r)
       /\ UNCHANGED inflight

SpecRace == Init /\ [][NextRace]_vars

\* C11: of the payment confirmations running concurrently for one tracking
\* code at most one answers 200, and the payment ledger never holds more
\* than one entry for a tracking code.
C11_AtMostOnePaymentWrites ==
    \A t \in PayCodesAny :
        /\ Cardinality({r \in 1..MaxRequests :
                            requests[r].trackingId = t /\ requests[r].code = 200}) <= 1
        /\ PaymentCount(t) <= 1

\* ------------------------------------------------------- the parcel's life
\* C12: paymentStatus is Not Paid or Paid, and no step takes a stored
\* parcel's paymentStatus from Paid to anything else.
C12_PaidIsOneWay ==
    [][\A id \in DOMAIN parcels \cap DOMAIN parcels' :
        /\ parcels'[id].paymentStatus \in {"Not Paid", "Paid"}
        /\ parcels[id].paymentStatus = "Paid" => parcels'[id].paymentStatus = "Paid"]_vars

\* SpecLife: a merchant creates parcels (one the cancellation policy always
\* denies, one without tracking code and one without creator email, which
\* the policy allows while young), cancels, deletes and pays; the admin sets
\* InTransit or Delivered and deletes; the clock may pass the 24-hour limit.
LifeBodies ==
    {ParcelBody("T1", MerchantEmail, "A", "A", CentralHub, CentralHub),
     ParcelBody(Undefined, MerchantEmail, "A", "B", "Hub1", "Hub2"),
     ParcelBody("T1", Undefined, "A", "B", "Hub1", "Hub2")}

LifeInstants == {Limit24 * TicksPerHour + 1}
LifeStatuses == {"InTransit", "Delivered"}

NextLife ==
    \/ /\ \E t \in LifeInstants : Tick(t)
       /\ UNCHANGED <<requests, inflight>>
    \/ /\ nextId <= MaxParcels /\ Room(2)
       /\ \E body \in LifeBodies, f \in 0..3 : CreateParcel(MerchantEmail, body, f)
       /\ UNCHANGED <<requests, inflight>>
    \/ /\ Room(1)
       /\ \E id \in 1..MaxParcels : CancelParcel(MerchantEmail, id, 0)
       /\ UNCHANGED <<requests, inflight>>
    \/ /\ Room(1)
       /\ \E id \in 1..MaxParcels : DeleteParcel(MerchantEmail, id, 0)
       /\ UNCHANGED <<requests, inflight>>
    \/ /\ Room(3)
       /\ \E id \in 1..MaxParcels, st \in LifeStatuses :
            AdminUpdateStatus(AdminEmail, id, st, Undefined, 0)
       /\ UNCHANGED <<requests, inflight>>
    \/ /\ Room(2)
       /\ \E id \in 1..MaxParcels : AdminDeleteParcel(AdminEmail, id, 0)
       /\ UNCHANGED <<requests, inflight>>
    \/ /\ Room(2)
       /\ \E body \in PaymentBodies : ConfirmPayment(MerchantEmail, "T1", body, 0)
       /\ UNCHANGED <<requests, inflight>>

SpecLife == Init /\ [][NextLife]_vars

\* C13: a delete request, by the merchant or by the admin, for a stored
\* parcel whose status is neither Delivered nor Cancelled answers 400 and
\* leaves the parcel store unchanged; for a Delivered or Cancelled parcel it
\* answers 200 and the parcel is no longer stored.
C13_DeleteOnlyWhenTerminal ==
    [][\A id \in 1..MaxParcels :
        (/\ \/ DeleteParcel(MerchantEmail, id, 0)
            \/ AdminDeleteParcel(AdminEmail, id, 0)
         /\ Found(id)) =>
            IF parcels[id].status \in {"Delivered", "Cancelled"}
            THEN resp'.code = 200 /\ id \notin DOMAIN parcels'
            ELSE resp'.code = 400 /\ parcels' = parcels]_vars

\* the merchant deleted a parcel that had been cancelled
C13_Witness ==
    /\ resp.op = "delete" /\ resp.code = 200
    /\ parcels = <<>>
    /\ nextId > 1
    /\ \A i \in 1..Len(tracking) : tracking[i].status = "Pending"

\* C14: the parcel POST /parcels stores has status Pending, paymentStatus
\* Not Paid and the server's clock as createdAt, whatever status,
\* paymentStatus and createdAt the request body carried, and also when a
\* later store call of the request fails.
C14_CreateForcesDefaults ==
    [][\A body \in LifeBodies, f \in 0..3 :
        (CreateParcel(MerchantEmail, body, f) /\ nextId' # nextId) =>
            /\ body.status = "Delivered" /\ body.paymentStatus = "Paid"
            /\ parcels'[nextId].status = "Pending"
            /\ parcels'[nextId].paymentStatus = "Not Paid"
            /\ parcels'[nextId].createdAt = now]_vars

\* a parcel created after the clock moved: createdAt is the clock's instant,
\* not the instant 0 of the request body
C14_Witness ==
    /\ resp.op = "create" /\ resp.code = 201 /\ resp.at > 0
    /\ 1 \in DOMAIN parcels
    /\ parcels[1].createdAt = resp.at
    /\ parcels[1].status = "Pending"
    /\ parcels[1].paymentStatus = "Not Paid"

\* C15: a create request whose body lacks the creator email or the tracking
\* code is refused with a validation error (a 4xx answer) and stores neither
\* a parcel nor a tracking event.
C15_CreateValidatesRequiredFields ==
    [][\A body \in LifeBodies :
        (/\ CreateParcel(MerchantEmail, body, 0)
         /\ body.email = Undefined \/ body.trackingId = Undefined) =>
            /\ resp'.code \in 400..499
            /\ parcels' = parcels
            /\ tracking' = tracking]_vars

\* SpecAdmin: the merchant creates the parcels of SpecLife, the clock may
\* pass the 24-hour limit, and the admin sets InTransit or Delivered, several
\* times over.
AdminRoom(n) == Docs + n <= MaxAdminDocs

NextAdmin ==
    \/ /\ \E t \in LifeInstants : Tick(t)
       /\ UNCHANGED <<requests, inflight>>
    \/ /\ nextId <= MaxParcels /\ AdminRoom(2)
       /\ \E body \in LifeBodies, f \in 0..3 : CreateParcel(MerchantEmail, body, f)
       /\ UNCHANGED <<requests, inflight>>
    \/ /\ AdminRoom(3)
       /\ \E id \in 1..MaxParcels, st \in LifeStatuses :
            AdminUpdateStatus(AdminEmail, id, st, Undefined, 0)
       /\ UNCHANGED <<requests, inflight>>

SpecAdmin == Init /\ [][NextAdmin]_vars

\* C16: an admin status update that answers 200 leaves the parcel's
\* deliveredAt at the instant of the update when newStatus is Delivered and
\* at null for every other newStatus, a parcel that was Delivered included.
C16_DeliveredAtFollowsStatus ==
    [][\A id \in 1..MaxParcels, st \in LifeStatuses :
        (AdminUpdateStatus(AdminEmail, id, st, Undefined, 0) /\ resp'.code = 200) =>
            parcels'[id].deliveredAt = IF st = "Delivered" THEN now ELSE NullDate]_vars

\* a parcel that was Delivered was set to InTransit and its deliveredAt is null
C16_Witness ==
    /\ resp.op = "adminStatus" /\ resp.code = 200
    /\ 1 \in DOMAIN parcels
    /\ parcels[1].status = "InTransit"
    /\ parcels[1].deliveredAt = NullDate
    /\ \E i \in 1..Len(tracking) : tracking[i].parcel_id = 1 /\ tracking[i].status = "Delivered"

\* C17: an admin status update for a stored parcel answers 200, sets the
\* status to newStatus, appends exactly one tracking event with that status
\* and the message "Status updated to {newStatus}", one notification and one
\* audit log entry, whatever the parcel's age, regions and warehouses: the
\* cancellation policy is not consulted.
C17_AdminUpdateBypassesPolicy ==
    [][\A id \in 1..MaxParcels, st \in LifeStatuses :
        (AdminUpdateStatus(AdminEmail, id, st, Undefined, 0) /\ Found(id)) =>
            /\ resp'.code = 200
            /\ parcels'[id].status = st
            /\ Len(tracking') = Len(tracking) + 1
            /\ SubSeq(tracking', 1, Len(tracking)) = tracking
            /\ tracking'[Len(tracking')].parcel_id = id
            /\ tracking'[Len(tracking')].status = st
            /\ tracking'[Len(tracking')].message = <<"Status updated to", st>>
            /\ Len(notifications') = Len(notifications) + 1
            /\ notifications'[Len(notifications')].title = "Parcel Status Update"
            /\ Len(logs') = Len(logs) + 1
            /\ logs'[Len(logs')].actionType = "Updated Parcel Status"]_vars

\* the admin set a same-hub parcel, which the policy never lets be cancelled,
\* to InTransit more than 24 hours after its creation
C17_Witness ==
    /\ resp.op = "adminStatus" /\ resp.code = 200
    /\ resp.at > Limit24 * TicksPerHour
    /\ 1 \in DOMAIN parcels
    /\ parcels[1].createdAt = 0
    /\ parcels[1].senderWarehouse = CentralHub /\ parcels[1].receiverWarehouse = CentralHub
    /\ parcels[1].status = "InTransit"
    /\ Len(logs) = 1

\* C18: Delivered and Cancelled are terminal: no step changes the status of
\* a stored parcel whose status is Delivered or Cancelled.
C18_TerminalStatusesAreFinal ==
    [][\A id \in DOMAIN parcels \cap DOMAIN parcels' :
        parcels[id].status \in {"Delivered", "Cancelled"} =>
            parcels'[id].status = parcels[id].status]_vars

\* ----------------------------------------------------------- tracking codes
\* SpecCodes: parcels created with tracking code T1 or T2, the admin edit
\* that sets a parcel's trackingId, and payment confirmations by code.
CodeBodies == {ParcelBody(t, MerchantEmail, "A", "B", "Hub1", "Hub2") : t \in {"T1", "T2"}}

CodeEdits == {[trackingId |-> "T2"]}

NextCodes ==
    \/ /\ nextId <= MaxCodeParcels
       /\ \E body \in CodeBodies : CreateParcel(MerchantEmail, body, 0)
       /\ UNCHANGED <<requests, inflight>>
    \/ /\ Len(logs) < MaxLogs
       /\ \E id \in 1..MaxCodeParcels, e \in CodeEdits : AdminEditParcel(AdminEmail, id, e, 0)
       /\ UNCHANGED <<requests, inflight>>
    \/ /\ nextPayId <= MaxPayments
       /\ \E t \in {"T1", "T2"}, body \in PaymentBodies : ConfirmPayment(MerchantEmail, t, body, 0)
       /\ UNCHANGED <<requests, inflight>>

SpecCodes == Init /\ [][NextCodes]_vars

\* C19: no two stored parcels have the same tracking code, and no step
\* changes the tracking code of a stored parcel.
C19_TrackingCodesUniqueImmutable ==
    [][/\ \A i, j \in DOMAIN parcels' :
            i # j => parcels'[i].trackingId # parcels'[j].trackingId
       /\ \A id \in DOMAIN parcels \cap DOMAIN parcels' :
            parcels'[id].trackingId = parcels[id].trackingId]_vars

\* ------------------------------------------------------------- not found
\* C20: a cancel, a delete (merchant or admin), an admin status update and a
\* payment confirmation addressed to a parcel that is not stored each answer
\* 404 and change no collection.
C20_AbsentParcelAnswers404 ==
    [][/\ \A id \in 1..MaxParcels :
            (/\ id \notin DOMAIN parcels
             /\ \/ CancelParcel(MerchantEmail, id, 0)
                \/ DeleteParcel(MerchantEmail, id, 0)
                \/ AdminDeleteParcel(AdminEmail, id, 0)
                \/ \E st \in LifeStatuses : AdminUpdateStatus(AdminEmail, id, st, Undefined, 0)) =>
                /\ resp'.code = 404
                /\ UNCHANGED stores
       /\ \A body \in PaymentBodies :
            (/\ \A i \in DOMAIN parcels : parcels[i].trackingId # "T1"
             /\ ConfirmPayment(MerchantEmail, "T1", body, 0)) =>
                /\ resp'.code = 404
                /\ UNCHANGED stores]_vars

\* a cancel request for a parcel that was created, cancelled and deleted
C20_Witness ==
    /\ resp.op = "cancel" /\ resp.code = 404
    /\ parcels = <<>>
    /\ nextId > 1
    /\ Len(tracking) >= 1
    /\ Len(notifications) >= 2

\* --------------------------------------------------- status and its ledger
\* C26: between requests, the status of each stored parcel that has tracking
\* events is the status of the most recent of them.
C26_StatusMatchesLastEvent ==
    \A id \in DOMAIN parcels :
        LET evs == GetTracking(id)
        IN Len(evs) >= 1 => evs[Len(evs)].status = parcels[id].status

\* C27: a cancel request answered 404, 400 or 500 leaves the stored status of
\* its parcel as it was before the request.
C27_FailedCancelKeepsStatus ==
    [][\A id \in 1..2, f \in 0..2 :
        (/\ CancelParcel(MerchantEmail, id, f)
         /\ Found(id)
         /\ resp'.code \in {400, 404, 500}) =>
            parcels'[id].status = parcels[id].status]_vars

\* ---------------------------------------------------------- the identity gate
\* SpecGate: every gated handler called with no credential, an invalid one,
\* a restricted account's, another merchant's, the merchant's or the admin's;
\* the admin restricts and unblocks the merchant; POST /tracking, which has
\* no gate, with and without store failures; store failures inside the gate.
OtherEmail == "other@profast"

InitGateUsers ==
    InitUsers @@ (OtherEmail :> [role |-> "merchant", isRestricted |-> FALSE])

InitGate ==
    /\ parcels = <<>>
    /\ nextId = 1
    /\ tracking = <<>>
    /\ payments = <<>>
    /\ nextPayId = 1
    /\ notifications = <<>>
    /\ logs = <<>>
    /\ users = InitGateUsers
    /\ now = 0
    /\ resp = [op |-> "none", code |-> 0, msg |-> "none", at |-> 0, key |-> Undefined]
    /\ requests = [r \in 1..MaxRequests |-> IdleRequest]
    /\ inflight = [c \in Clients |-> IdleInflight]

GateCallers == {NoToken, BadToken, RestrictedEmail, MerchantEmail, OtherEmail, AdminEmail}

\* a gated request of the caller tok, with no store failure
GatedRequest(tok) ==
    \/ \E body \in Bodies : CreateParcel(tok, body, 0)
    \/ \E id \in 1..MaxParcels : CancelParcel(tok, id, 0)
    \/ \E id \in 1..MaxParcels : DeleteParcel(tok, id, 0)
    \/ \E id \in 1..MaxParcels, st \in NewStatuses : AdminUpdateStatus(tok, id, st, Undefined, 0)
    \/ \E id \in 1..MaxParcels : AdminDeleteParcel(tok, id, 0)
    \/ \E id \in 1..MaxParcels, e \in Edits : AdminEditParcel(tok, id, e, 0)
    \/ \E body \in PaymentBodies : ConfirmPayment(tok, "T1", body, 0)
    \/ \E restricted \in BOOLEAN : RestrictUser(tok, MerchantEmail, restricted, 0)

NextGate ==
    \/ /\ nextId <= MaxParcels /\ Room(2)
       /\ \E tok \in GateCallers, body \in Bodies : CreateParcel(tok, body, 0)
       /\ UNCHANGED <<requests, inflight>>
    \/ /\ Room(1)
       /\ \E tok \in GateCallers, id \in 1..MaxParcels : CancelParcel(tok, id, 0)
       /\ UNCHANGED <<requests, inflight>>
    \/ /\ Room(1)
       /\ \E tok \in GateCallers, id \in 1..MaxParcels : DeleteParcel(tok, id, 0)
       /\ UNCHANGED <<requests, inflight>>
    \/ /\ Room(3)
       /\ \E tok \in GateCallers, id \in 1..MaxParcels, st \in NewStatuses :
            AdminUpdateStatus(tok, id, st, Undefined, 0)
       /\ UNCHANGED <<requests, inflight>>
    \/ /\ Room(2)
       /\ \E tok \in GateCallers, id \in 1..MaxParcels : AdminDeleteParcel(tok, id, 0)
       /\ UNCHANGED <<requests, inflight>>
    \/ /\ Room(1)
       /\ \E tok \in GateCallers, id \in 1..MaxParcels, e \in Edits : AdminEditParcel(tok, id, e, 0)
       /\ UNCHANGED <<requests, inflight>>
    \/ /\ Room(2)
       /\ \E tok \in GateCallers, body \in PaymentBodies : ConfirmPayment(tok, "T1", body, 0)
       /\ UNCHANGED <<requests, inflight>>
    \/ /\ Room(2)
       /\ \E tok \in GateCallers, restricted \in BOOLEAN :
            RestrictUser(tok, MerchantEmail, restricted, 0)
       /\ UNCHANGED <<requests, inflight>>
    \/ /\ Room(1)
       /\ \E body \in TrackingBodies, f \in 0..2 : PostTracking(body, f)
       /\ UNCHANGED <<requests, inflight>>
    \/ /\ \E op \in {"cancel", "adminStatus"}, tok \in {MerchantEmail, AdminEmail} :
            GateLookupFails(op, tok)
       /\ UNCHANGED <<requests, inflight>>

SpecGate == InitGate /\ [][NextGate]_vars

\* C21: a gated request without a credential is answered 401, one with an
\* invalid or expired credential 403, one of an account that is restricted
\* when the request arrives 403, and none of them changes any collection.
C21_GateRejectsBeforeHandler ==
    [][\A tok \in GateCallers :
        (/\ GatedRequest(tok)
         /\ \/ tok \in {NoToken, BadToken}
            \/ tok \in DOMAIN users /\ users[tok].isRestricted) =>
            /\ resp'.code = IF tok = NoToken THEN 401 ELSE 403
            /\ UNCHANGED stores]_vars

\* a cancel request was refused with 403 while the merchant is restricted and
\* the parcel is stored and still Pending
C21_Witness ==
    /\ resp.op = "cancel" /\ resp.code = 403
    /\ users[MerchantEmail].isRestricted
    /\ 1 \in DOMAIN parcels /\ parcels[1].status = "Pending"

\* C22: every request is answered: no request ends without a response.
C22_EveryRequestAnswered ==
    resp.op # "none" => resp.code # NoResponse

\* C28: a request that carries no valid credential (a gated request without
\* or with an invalid credential, or a POST /tracking request, which carries
\* none) changes the status of no stored parcel.
C28_StatusChangeNeedsCredential ==
    [][(\/ \E tok \in {NoToken, BadToken} : GatedRequest(tok)
        \/ \E body \in TrackingBodies, f \in 0..2 : PostTracking(body, f)) =>
            \A id \in DOMAIN parcels :
                id \in DOMAIN parcels' /\ parcels'[id].status = parcels[id].status]_vars

\* C29: a cancel or a merchant delete request of an authenticated non-admin
\* caller leaves a parcel created by somebody else unchanged.
C29_OnlyCreatorCancelsOrDeletes ==
    [][\A id \in 1..MaxParcels :
        (/\ \/ CancelParcel(OtherEmail, id, 0)
            \/ DeleteParcel(OtherEmail, id, 0)
         /\ Found(id)
         /\ parcels[id].createdBy # OtherEmail) =>
            id \in DOMAIN parcels' /\ parcels'[id] = parcels[id]]_vars

\* ------------------------------------------- parcel store and payment ledger
\* SpecSync: payment confirmations with a store failure at any of their store
\* calls, and the admin's deletion of payment records.
NextSync ==
    \/ /\ nextId <= MaxParcels
       /\ \E body \in Bodies : CreateParcel(MerchantEmail, body, 0)
       /\ UNCHANGED <<requests, inflight>>
    \/ /\ nextPayId <= MaxPayments
       /\ \E t \in PayCodesAny, body \in PayBodies, f \in 0..4 :
            ConfirmPayment(MerchantEmail, t, body, f)
       /\ UNCHANGED <<requests, inflight>>
    \/ /\ Len(logs) < MaxLogs
       /\ \E id \in 1..MaxPayments, f \in 0..4 : AdminDeletePayment(AdminEmail, id, f)
       /\ UNCHANGED <<requests, inflight>>

SpecSync == Init /\ [][NextSync]_vars

\* C25: between requests a stored parcel is Paid exactly when the payment
\* ledger holds exactly one entry for its tracking code.
C25_PaidIffOneLedgerEntry ==
    \A id \in DOMAIN parcels :
        parcels[id].paymentStatus = "Paid" <=> PaymentCount(parcels[id].trackingId) = 1

\* ------------------------------------------------------------------- roles
\* SpecUsers: POST /users with or without a role in its body, for the
\* merchant's email and for a new one, and role updates asked by the admin,
\* by the merchant and by the owner of the new email.
UserBodies ==
    {[email |-> e, role |-> r] :
        e \in {MerchantEmail, OtherEmail, Undefined}, r \in {Undefined, "merchant", "admin"}}

UserRoom(n) == Docs + n <= MaxUserDocs

NextUsers ==
    \/ /\ UserRoom(1)
       /\ \E body \in UserBodies, f \in 0..2 : UpsertUser(body, f)
       /\ UNCHANGED <<requests, inflight>>
    \/ /\ UserRoom(2)
       /\ \E tok \in {AdminEmail, MerchantEmail, OtherEmail, NoToken},
             email \in {MerchantEmail, OtherEmail},
             role \in {Undefined, "merchant", "admin"}, f \in 0..3 :
            UpdateRole(tok, email, role, f)
       /\ UNCHANGED <<requests, inflight>>

SpecUsers == Init /\ [][NextUsers]_vars

\* C30: an account that verifyAdmin refuses becomes one that verifyAdmin
\* accepts only in a step of a role update asked by a caller who passes the
\* identity gate and the admin check.
C30_AdminRoleNeedsAdmin ==
    [][\A e \in {MerchantEmail, OtherEmail} :
        (/\ ~(e \in DOMAIN users /\ users[e].role = "admin")
         /\ e \in DOMAIN users' /\ users'[e].role = "admin") =>
            \E tok \in DOMAIN users, f \in 0..3 :
                /\ verifyJWT(tok) = Pass
                /\ verifyAdmin(tok) = Pass
                /\ UpdateRole(tok, e, "admin", f)]_vars

\* ------------------------------------------------- interleaved parcel requests
\* SpecInterleave: the merchant's delete and cancel requests and the admin's
\* status updates (to Delivered or InTransit) for one parcel, interleaved at
\* their awaits, one request per client at a time.
NextInterleave ==
    \/ /\ nextId <= MaxParcels /\ AdminRoom(2)
       /\ \E body \in Bodies : CreateParcel(MerchantEmail, body, 0)
       /\ UNCHANGED <<requests, inflight>>
    \/ /\ \E id \in 1..MaxParcels, kind \in {"delete", "cancel"} :
            FindOne("merchant", kind, MerchantEmail, id, Undefined)
       /\ UNCHANGED requests
    \/ /\ AdminRoom(3)
       /\ \E id \in 1..MaxParcels, st \in LifeStatuses :
            FindOne("admin", "adminStatus", AdminEmail, id, st)
       /\ UNCHANGED requests
    \/ /\ \E c \in Clients : DelDeleteOne(c)
       /\ UNCHANGED requests
    \/ /\ AdminRoom(1)
       /\ \E c \in Clients : DelNotify(c)
       /\ UNCHANGED requests
    \/ /\ \E c \in Clients : CanUpdateOne(c)
       /\ UNCHANGED requests
    \/ /\ \E c \in Clients : CanNotify(c)
       /\ UNCHANGED requests
    \/ /\ \E c \in Clients : AdmUpdateOne(c)
       /\ UNCHANGED requests
    \/ /\ \E c \in Clients : AdmInsertLog(c)
       /\ UNCHANGED requests
    \/ /\ \E c \in Clients : AdmNotify(c)
       /\ UNCHANGED requests
    \/ /\ \E c \in Clients : AdmAudit(c)
       /\ UNCHANGED requests

SpecInterleave == Init /\ [][NextInterleave]_vars

\* C23: a step that removes a parcel from the parcel store removes one whose
\* stored status at that moment is Delivered or Cancelled.
C23_DeletedOnlyWhileTerminal ==
    [][\A id \in DOMAIN parcels \ DOMAIN parcels' :
        parcels[id].status \in {"Delivered", "Cancelled"}]_vars

\* the status a request of client c puts into its status write
Written(c) ==
    IF inflight[c].kind = "cancel" THEN "Cancelled" ELSE Bson(inflight[c].newStatus)

\* client c takes its status write in this step
StatusWrite(c) ==
    /\ inflight[c].kind \in {"cancel", "adminStatus"}
    /\ inflight[c].pc = "found"
    /\ inflight'[c].pc = "updated"

\* C24: when a cancel and an admin status update of one parcel interleave,
\* neither is answered 400 or 404 once its own read found the parcel, every
\* status write leaves the stored status at the value that write carries
\* whatever was written before it, and the stored status changes in no other
\* step, so the final status is that of the write applied last.
C24_LastStatusWriteWins ==
    [][/\ \A c \in Clients :
            (/\ inflight'[c].kind \in {"cancel", "adminStatus"}
             /\ inflight'[c].pc = "done"
             /\ inflight'[c].found) => inflight'[c].code \notin {400, 404}
       /\ \A c \in Clients :
            (StatusWrite(c) /\ inflight[c].id \in DOMAIN parcels) =>
                /\ inflight[c].id \in DOMAIN parcels'
                /\ parcels'[inflight[c].id].status = Written(c)
       /\ \A id \in DOMAIN parcels \cap DOMAIN parcels' :
            parcels'[id].status # parcels[id].status =>
                \E c \in Clients : StatusWrite(c) /\ inflight[c].id = id]_vars

\* Both requests read the parcel as Pending; the admin wrote InTransit and
\* appended its event, the cancel wrote Cancelled after it: the ledger's last
\* status for the parcel is InTransit and the stored status is Cancelled.
C24_Witness ==
    /\ 1 \in DOMAIN parcels
    /\ inflight["merchant"].kind = "cancel"
    /\ inflight["merchant"].pc = "updated"
    /\ inflight["merchant"].doc.status = "Pending"
    /\ inflight["admin"].kind = "adminStatus"
    /\ inflight["admin"].pc = "logged"
    /\ inflight["admin"].doc.status = "Pending"
    /\ parcels[1].status = "Cancelled"
    /\ LET evs == GetTracking(1)
       IN Len(evs) >= 2 /\ evs[Len(evs)].status = "InTransit"

====
